---- MODULE Spec2Model ----
(***************************************************************************)
(* Model of the legal-assistant chat relay (src/app.py).                   *)
(*                                                                         *)
(* Text is a sequence of one-character strings, so that trimming, joining  *)
(* and substring tests are computed rather than assumed.  A JSON request   *)
(* body is a record: its kind, and for an object the three keys the        *)
(* handler reads, each either absent or a typed value.                     *)
(***************************************************************************)
EXTENDS Integers, Sequences, FiniteSets, TLC

VARIABLES
    groq_client,   \* "present" or "absent": the module-level handle (app.py:33-58)
    api_key_set,   \* whether GROQ_API_KEY is set in the environment
    pc,            \* per worker: "idle", "calling" (blocked in the upstream call), "done"
    req,           \* per worker: the request being handled
    sent,          \* per worker: user-message content passed to the upstream call
    up,            \* per worker: what the upstream call did
    resp,          \* per worker: the HTTP response produced
    fault,         \* per worker: where an exception was raised ("none", "handler", "upstream")
    log,           \* per worker: user ids written to the log for this request
    hresp,         \* the last GET /api/health response
    calls,         \* number of upstream completion calls issued (the provider's counter)
    nreq,          \* number of POST /api/chat requests received
    validated      \* number of requests with handle present, object body, non-empty trimmed message

vars == <<groq_client, api_key_set, pc, req, sent, up, resp, fault, log, hresp,
          calls, nreq, validated>>

\* ------------------------------------------------------------------ bounds

MaxRequests == 2
MaxFiles == 2
MaxChoices == 2

\* Two of the server's worker processes, handling requests concurrently.
Workers == {"w1", "w2"}

\* ------------------------------------------------------------------ text

\* Characters Python's str.strip() removes.
Whitespace == {" ", "\t", "\n", "\r"}

RECURSIVE LStrip(_)
LStrip(s) == IF s # <<>> /\ Head(s) \in Whitespace THEN LStrip(Tail(s)) ELSE s

RECURSIVE RStrip(_)
RStrip(s) ==
    IF s # <<>> /\ s[Len(s)] \in Whitespace THEN RStrip(SubSeq(s, 1, Len(s) - 1)) ELSE s

\* str.strip(): leading and trailing whitespace removed, the rest untouched.
Strip(s) == RStrip(LStrip(s))

RECURSIVE Join(_, _)
\* sep.join(parts)
Join(sep, parts) ==
    IF parts = <<>> THEN <<>>
    ELSE IF Len(parts) = 1 THEN parts[1]
    ELSE parts[1] \o sep \o Join(sep, Tail(parts))

\* user_id[:8] if len(user_id) > 8 else user_id
Truncate(s) == IF Len(s) > 8 THEN SubSeq(s, 1, 8) ELSE s

\* The f-string of app.py:103-105 up to the interpolated message.
Preamble ==
    <<
    "Y","o","u"," ","a","r","e"," ","a"," ","L","e","g","a","l"," ","A","I"," ","A","s",
    "s","i","s","t","a","n","t","."," ","P","r","o","v","i","d","e"," ","h","e","l","p",
    "f","u","l",","," ","a","c","c","u","r","a","t","e"," ","l","e","g","a","l"," ","i",
    "n","f","o","r","m","a","t","i","o","n"," ","w","h","i","l","e"," ","a","l","w","a",
    "y","s"," ","e","m","p","h","a","s","i","z","i","n","g"," ","t","h","a","t"," ","y",
    "o","u","r"," ","r","e","s","p","o","n","s","e","s"," ","a","r","e"," ","f","o","r",
    " ","i","n","f","o","r","m","a","t","i","o","n","a","l"," ","p","u","r","p","o","s",
    "e","s"," ","o","n","l","y"," ","a","n","d"," ","n","o","t"," ","l","e","g","a","l",
    " ","a","d","v","i","c","e",".","\n","\n","U","s","e","r","'","s"," ","q","u","e","s",
    "t","i","o","n",":"," " >>

\* "\n\nNote: The user has uploaded: " (app.py:110)
NotePrefix ==
    << "\n","\n","N","o","t","e",":"," ","T","h","e"," ","u","s","e","r"," ","h","a","s",
       " ","u","p","l","o","a","d","e","d",":"," " >>

CommaSpace == << ",", " " >>

Anonymous == << "a","n","o","n","y","m","o","u","s" >>

ModelId == "llama3-8b-8192"

\* ------------------------------------------------------------------ requests

Absent == [t |-> "absent", s |-> <<>>]
Null == [t |-> "null", s |-> <<>>]
Num == [t |-> "num", s |-> <<>>]
Str(s) == [t |-> "str", s |-> s]

NoFiles == [t |-> "absent", v |-> <<>>]
Files(v) == [t |-> "list", v |-> v]

Named(n) == [has_name |-> TRUE, name |-> n]
Nameless == [has_name |-> FALSE, name |-> <<>>]

FileA == << "a", ".", "p", "d", "f" >>
FileB == << "b", ".", "p", "d", "f" >>
FileEntries == {Named(FileA), Named(FileB), Nameless}

SeqsUpTo(S, n) == UNION {[1..k -> S] : k \in 0..n}

\* message texts: empty, whitespace only, plain, with surrounding and inner whitespace
Messages ==
    { <<>>, <<" ", " ">>, <<"x">>, <<" ", "x">>, <<"x", " ">>, <<"\n", "x", "\t">>,
      <<"x", " ", "x">> }

ShortUser == << "u", "1" >>
LongUser == << "u", "s", "e", "r", "-", "1", "2", "3", "4", "5" >>
UserIds == {Absent, Null, Num, Str(<<>>), Str(ShortUser), Str(LongUser)}

\* A body that is no JSON object carries none of the three keys.
Body(kind) == [kind |-> kind, message |-> Absent, uploaded_files |-> NoFiles, user_id |-> Absent]
Object(m, f, u) == [kind |-> "object", message |-> m, uploaded_files |-> f, user_id |-> u]

\* "nobody": no body and no JSON content type; "malformed": JSON content type, body
\* that does not parse (an empty body included); "falsy": valid JSON null, 0, "", []
\* or false; "truthy": any other valid JSON value that is not an object.
NonObjects == {Body("nobody"), Body("malformed"), Body("falsy"), Body("truthy")}

AllRequests ==
    NonObjects \cup
    { Object(m, f, u) :
        m \in {Absent, Null} \cup {Str(s) : s \in Messages},
        f \in {NoFiles} \cup {Files(v) : v \in SeqsUpTo(FileEntries, MaxFiles)},
        u \in UserIds }

\* One request per path through the handler, and every user_id beside one message.
Requests ==
    NonObjects \cup
    { Object(Absent, NoFiles, Absent),
      Object(Absent, NoFiles, Str(ShortUser)),
      Object(Null, NoFiles, Absent),
      Object(Str(<<" ", " ">>), NoFiles, Absent),
      Object(Str(<<"x", " ">>), Files(<<Nameless, Named(FileA)>>), Absent) } \cup
    { Object(Str(<<"x">>), NoFiles, u) : u \in UserIds }

NoReq == Body("none")

\* ------------------------------------------------------------------ responses

Respond(status, error, detail) ==
    [status |-> status, error |-> error, detail |-> detail, response |-> <<>>,
     model_used |-> ""]

NoResp == Respond(0, "", "")

\* What a route function hands back to Flask: a response, or an exception that escaped it.
Returned(r) == [escaped |-> FALSE, resp |-> r]
Escaped == [escaped |-> TRUE, resp |-> NoResp]

\* @app.errorhandler(500)
InternalError == Respond(500, "Internal server error", "")

\* Flask answers an exception that escapes a route with the registered 500 handler.
Dispatch(o) == IF o.escaped THEN InternalError ELSE o.resp

\* A plausible slip: the exception is re-raised instead of answered by chat itself.
ChatExceptReraise(text) == Escaped

\* except Exception as e: ... 500 with str(e) in the body
ChatExcept(text) ==
    Returned(Respond(500, "An error occurred while processing your request: ", text))

\* ------------------------------------------------------------------ startup

Ctors == {"ok", "typeerror_retry_ok", "typeerror_retry_fail", "exception"}

\* Module-level initialisation of groq_client.
Startup(import_ok, key_set, ctor) ==
    IF ~import_ok THEN "absent"
    ELSE IF ~key_set THEN "absent"
    ELSE IF ctor \in {"ok", "typeerror_retry_ok"} THEN "present"
    ELSE "absent"

\* ------------------------------------------------------------------ health

NoHealth == [status |-> "none", groq_client |-> FALSE, groq_api_key_set |-> FALSE, http |-> 0]

\* A plausible slip: health derived from the key's presence, not from the handle.
HealthByKey(client, key_set) ==
    [status |-> IF key_set THEN "healthy" ELSE "degraded",
     groq_client |-> (client = "present"),
     groq_api_key_set |-> key_set,
     http |-> 200]

\* health(): jsonify(...) with no status code, so HTTP 200 in either case.  The
\* environment and port fields, copied from the process environment, are left out.
HealthBody(client, key_set) ==
    [status |-> IF client = "present" THEN "healthy" ELSE "degraded",
     groq_client |-> (client = "present"),
     groq_api_key_set |-> key_set,
     http |-> 200]

\* ------------------------------------------------------------------ chat

\* request.get_json(): BadRequest on a body that does not parse; on a request without a
\* JSON content type, None in Flask before 2.1 (legacy) and UnsupportedMediaType since.
GetJson(r, legacy) ==
    IF r.kind = "malformed"
    THEN [raised |-> TRUE, none |-> FALSE,
          text |-> "400 Bad Request: The browser (or proxy) sent a request that this server could not understand."]
    ELSE IF r.kind = "nobody"
    THEN IF legacy
         THEN [raised |-> FALSE, none |-> TRUE, text |-> ""]
         ELSE [raised |-> TRUE, none |-> FALSE,
               text |-> "415 Unsupported Media Type: Did not attempt to load JSON data because the request Content-Type was not 'application/json'."]
    ELSE [raised |-> FALSE, none |-> FALSE, text |-> ""]

\* The builds that differ on r: the Flask version matters to get_json only when the
\* request has no JSON content type.
FlaskVersions(r) == IF r.kind = "nobody" THEN BOOLEAN ELSE {FALSE}

\* Python truth value of the parsed body: None, 0, "", [], false and {} are falsy.
Falsy(r) ==
    \/ r.kind = "falsy"
    \/ /\ r.kind = "object"
       /\ r.message.t = "absent"
       /\ r.uploaded_files.t = "absent"
       /\ r.user_id.t = "absent"

\* A plausible slip: f.get('name', '') for every entry, nothing filtered out.
FileNamesKeepAll(files) == [i \in 1..Len(files) |-> files[i].name]

\* [f['name'] for f in uploaded_files if 'name' in f]
FileNames(files) ==
    LET named == SelectSeq(files, LAMBDA f : f.has_name)
    IN  [i \in 1..Len(named) |-> named[i].name]

\* A plausible slip: "=" for "+=", the note replaces the prompt.
BuildPromptOverwrite(message, files) ==
    IF files # <<>> /\ FileNames(files) # <<>>
    THEN NotePrefix \o Join(CommaSpace, FileNames(files)) \o <<".">>
    ELSE Preamble \o message

\* contextual_prompt: the preamble, the trimmed message, and the note when there are names
BuildPrompt(message, files) ==
    LET base == Preamble \o message
        file_names == FileNames(files)
    IN  IF files # <<>> /\ file_names # <<>>
        THEN base \o NotePrefix \o Join(CommaSpace, file_names) \o <<".">>
        ELSE base

\* data.get('user_id', 'anonymous')
UserId(r) == IF r.user_id.t = "absent" THEN Str(Anonymous) ELSE r.user_id

Finish(o, src) ==
    [next |-> "done", resp |-> Dispatch(o), sent |-> <<>>, fault |-> src, log |-> <<>>]

\* A plausible slip: the body is parsed and checked before the handle is looked at.
ChatPreJsonFirst(client, r, legacy) ==
    LET j == GetJson(r, legacy)
    IN  IF j.raised THEN Finish(ChatExcept(j.text), "handler")
        ELSE IF j.none \/ Falsy(r)
        THEN Finish(Returned(Respond(400, "Invalid JSON data", "")), "none")
        ELSE IF client # "present"
        THEN Finish(Returned(Respond(503,
                 "AI service unavailable - Groq client not initialized", "")), "none")
        ELSE [next |-> "calling", resp |-> NoResp, sent |-> Preamble, fault |-> "none",
              log |-> <<>>]

\* chat() up to the upstream call: either the response, or the prompt to send.
ChatPre(client, r, legacy) ==
    IF client # "present"
    THEN Finish(Returned(Respond(503,
             "AI service unavailable - Groq client not initialized", "")), "none")
    ELSE
    LET j == GetJson(r, legacy)
    IN  IF j.raised THEN Finish(ChatExcept(j.text), "handler")
        ELSE IF j.none \/ Falsy(r)
        THEN Finish(Returned(Respond(400, "Invalid JSON data", "")), "none")
        ELSE IF r.kind # "object"
        THEN Finish(ChatExcept("'list' object has no attribute 'get'"), "handler")
        ELSE IF r.message.t = "null"
        THEN Finish(ChatExcept("'NoneType' object has no attribute 'strip'"), "handler")
        ELSE IF r.message.t = "num"
        THEN Finish(ChatExcept("'int' object has no attribute 'strip'"), "handler")
        ELSE
        LET message == Strip(r.message.s)
            uploaded_files == r.uploaded_files.v
            user_id == UserId(r)
        IN  IF message = <<>>
            THEN Finish(Returned(Respond(400, "Message is required", "")), "none")
            ELSE IF user_id.t = "null"
            THEN Finish(ChatExcept("object of type 'NoneType' has no len()"), "handler")
            ELSE IF user_id.t = "num"
            THEN Finish(ChatExcept("object of type 'int' has no len()"), "handler")
            ELSE [next |-> "calling", resp |-> NoResp,
                  sent |-> BuildPrompt(message, uploaded_files),
                  fault |-> "none", log |-> <<Truncate(user_id.s)>>]

\* ------------------------------------------------------------------ upstream

Canned == << "A", " ", "t", "o", "r", "t", " ", "i", "s", ".", ".", "." >>

NoUp == [kind |-> "none", err |-> "", choices |-> <<>>]

UpstreamErrors == {"Connection error.", "Error code: 429 - rate limit reached"}

\* What the provider may do with a call whose user content is c: fail, or reply with
\* a list of choices, each a fixed text or an echo of c.
Outcomes(c) ==
    {[kind |-> "raise", err |-> e, choices |-> <<>>] : e \in UpstreamErrors} \cup
    {[kind |-> "reply", err |-> "", choices |-> ch] : ch \in SeqsUpTo({Canned, c}, MaxChoices)}

\* A plausible slip: choices[-1] for choices[0].
ChatPostLastChoice(o) ==
    IF o.kind = "raise" THEN ChatExcept(o.err)
    ELSE IF o.choices = <<>> THEN ChatExcept("list index out of range")
    ELSE Returned([status |-> 200, error |-> "", detail |-> "",
                   response |-> o.choices[Len(o.choices)], model_used |-> ModelId])

\* chat() from the return of the upstream call on.
ChatPost(o) ==
    IF o.kind = "raise" THEN ChatExcept(o.err)
    ELSE IF o.choices = <<>> THEN ChatExcept("list index out of range")
    ELSE Returned([status |-> 200, error |-> "", detail |-> "",
                   response |-> o.choices[1], model_used |-> ModelId])

\* A request that passes validation once the handle is present: a JSON object whose
\* message is a string that is not empty after trimming.
Validated(r) ==
    /\ r.kind = "object"
    /\ r.message.t = "str"
    /\ Strip(r.message.s) # <<>>

\* ------------------------------------------------------------------ behaviour

Init ==
    /\ \E import_ok \in BOOLEAN, key_set \in BOOLEAN, ctor \in Ctors :
          /\ groq_client = Startup(import_ok, key_set, ctor)
          /\ api_key_set = key_set
    /\ pc = [w \in Workers |-> "idle"]
    /\ req = [w \in Workers |-> NoReq]
    /\ sent = [w \in Workers |-> <<>>]
    /\ up = [w \in Workers |-> NoUp]
    /\ resp = [w \in Workers |-> NoResp]
    /\ fault = [w \in Workers |-> "none"]
    /\ log = [w \in Workers |-> <<>>]
    /\ hresp = NoHealth
    /\ calls = 0
    /\ nreq = 0
    /\ validated = 0

\* A worker receives POST /api/chat with body r and runs chat() up to its response, or
\* up to the upstream call, where it blocks.
ChatBegin(w, r) ==
    /\ pc[w] \in {"idle", "done"}
    /\ nreq < MaxRequests
    /\ \E legacy \in FlaskVersions(r) :
          LET o == ChatPre(groq_client, r, legacy)
          IN  /\ pc' = [pc EXCEPT ![w] = o.next]
              /\ req' = [req EXCEPT ![w] = r]
              /\ sent' = [sent EXCEPT ![w] = o.sent]
              /\ up' = [up EXCEPT ![w] = NoUp]
              /\ resp' = [resp EXCEPT ![w] = o.resp]
              /\ fault' = [fault EXCEPT ![w] = o.fault]
              /\ log' = [log EXCEPT ![w] = o.log]
              /\ calls' = IF o.next = "calling" THEN calls + 1 ELSE calls
    /\ nreq' = nreq + 1
    /\ validated' = IF groq_client = "present" /\ Validated(r) THEN validated + 1
                    ELSE validated
    /\ UNCHANGED <<groq_client, api_key_set, hresp>>

\* The upstream call of worker w returns or raises, and chat() runs to its response.
UpstreamReturn(w) ==
    /\ pc[w] = "calling"
    /\ \E o \in Outcomes(sent[w]) :
          LET out == ChatPost(o)
          IN  /\ resp' = [resp EXCEPT ![w] = Dispatch(out)]
              /\ fault' = [fault EXCEPT ![w] = IF o.kind = "reply" /\ o.choices # <<>>
                                               THEN "none" ELSE "upstream"]
              /\ log' = [log EXCEPT ![w] = IF o.kind = "reply" /\ o.choices # <<>>
                                           THEN Append(log[w], Truncate(UserId(req[w]).s))
                                           ELSE log[w]]
              /\ up' = [up EXCEPT ![w] = o]
    /\ pc' = [pc EXCEPT ![w] = "done"]
    /\ UNCHANGED <<groq_client, api_key_set, req, sent, hresp, calls, nreq, validated>>

\* GET /api/health
Health ==
    /\ hresp' = HealthBody(groq_client, api_key_set)
    /\ UNCHANGED <<groq_client, api_key_set, pc, req, sent, up, resp, fault, log,
                   calls, nreq, validated>>

Next ==
    \/ \E w \in Workers, r \in Requests : ChatBegin(w, r)
    \/ \E w \in Workers : UpstreamReturn(w)
    \/ Health

Spec == Init /\ [][Next]_vars

\* The first request of a fresh process, drawn from all of AllRequests: the handler as
\* a function of its input.
ChatFirst(r) ==
    /\ nreq = 0
    /\ ChatBegin("w1", r)

NextSeq ==
    \/ \E r \in AllRequests : ChatFirst(r)
    \/ UpstreamReturn("w1")
    \/ Health

SpecSeq == Init /\ [][NextSeq]_vars

\* ------------------------------------------------------------------ properties

Done(w) == pc[w] = "done"

\* Whether worker w's request got as far as the upstream call.
Called(w) == sent[w] # <<>>

\* a occurs in b as a contiguous run of characters.
IsSubstring(a, b) ==
    \E i \in 0..(Len(b) - Len(a)) : SubSeq(b, i + 1, i + Len(a)) = a

\* The text between the first and the last character that is not whitespace.
TrimmedText(m) ==
    LET idx == {i \in 1..Len(m) : m[i] \notin Whitespace}
    IN  IF idx = {} THEN <<>>
        ELSE SubSeq(m, CHOOSE i \in idx : \A j \in idx : i <= j,
                       CHOOSE i \in idx : \A j \in idx : i >= j)

\* The names of the entries that have one, in input order, separated by ", ".
ListedNames(files) ==
    LET named == SelectSeq(files, LAMBDA f : f.has_name)
        upto[i \in 0..Len(named)] ==
            IF i = 0 THEN <<>>
            ELSE IF i = 1 THEN named[1].name
            ELSE upto[i - 1] \o <<",", " ">> \o named[i].name
    IN  [n |-> Len(named), text |-> upto[Len(named)]]

\* C1: with the provider handle absent, every POST /api/chat request, whatever its
\* body and however requests interleave, is answered 503; no worker ever enters the
\* upstream call and the upstream call counter stays at zero.
C1_AbsentAlways503 ==
    groq_client = "absent" =>
        /\ calls = 0
        /\ \A w \in Workers :
              /\ pc[w] # "calling"
              /\ ~Called(w)
              /\ Done(w) => resp[w].status = 503

C1_Witness ==
    /\ groq_client = "absent"
    /\ Done("w1") /\ req["w1"].kind = "malformed"
    /\ Done("w2") /\ Validated(req["w2"])

\* C2: with the handle present, a POST /api/chat request with no body or with a body
\* that is not valid JSON is answered 400 {error: "Invalid JSON data"} and makes no
\* upstream call.
C2_InvalidJson400 ==
    \A w \in Workers :
        (groq_client = "present" /\ Done(w) /\ req[w].kind \in {"nobody", "malformed"}) =>
            /\ resp[w].status = 400
            /\ resp[w].error = "Invalid JSON data"
            /\ ~Called(w)

\* C3 as claimed: GET /api/health answers "healthy" with HTTP 200 exactly when the
\* handle is present and "degraded" with HTTP 503 exactly when it is absent.
C3_HealthStatusCode ==
    hresp # NoHealth =>
        /\ groq_client = "present" => (hresp.status = "healthy" /\ hresp.http = 200)
        /\ groq_client = "absent" => (hresp.status = "degraded" /\ hresp.http = 503)

\* C3 as amended: the health status is a function of handle presence alone, "healthy"
\* exactly when the handle is present and "degraded" exactly when it is absent, and
\* the HTTP status is 200 in both cases.
C3_HealthByHandle ==
    hresp # NoHealth =>
        /\ hresp.status = "healthy" <=> groq_client = "present"
        /\ hresp.status = "degraded" <=> groq_client = "absent"
        /\ hresp.groq_client <=> groq_client = "present"
        /\ hresp.http = 200

C3_Witness ==
    /\ hresp.status = "degraded"
    /\ hresp.groq_api_key_set
    /\ groq_client = "absent"

\* C4: with the handle present, every request whose JSON object body has a message
\* that is missing, empty or whitespace-only is answered 400 {error: "Message is
\* required"} and makes no upstream call.
C4_MessageRequired ==
    \A w \in Workers :
        ( /\ groq_client = "present"
          /\ Done(w)
          /\ req[w].kind = "object"
          /\ req[w].message.t \in {"absent", "str"}
          /\ TrimmedText(req[w].message.s) = <<>> ) =>
            /\ resp[w].status = 400
            /\ resp[w].error = "Message is required"
            /\ ~Called(w)

\* C5: every request that passes validation (handle present, JSON object body,
\* non-empty trimmed message) issues exactly one upstream call and none issues more:
\* the upstream call count equals the number of validated requests.
C5_OneCallPerValidated ==
    /\ calls = validated
    /\ \A w \in Workers :
          (groq_client = "present" /\ pc[w] # "idle" /\ Validated(req[w])) => Called(w)

\* C6: when the upstream call succeeds the response is 200, response is the text of
\* the first completion choice unchanged and model_used is "llama3-8b-8192"; no
\* successful response carries another model_used.
C6_FirstChoiceVerbatim ==
    \A w \in Workers :
        Done(w) =>
            /\ (up[w].kind = "reply" /\ up[w].choices # <<>>) =>
                  /\ resp[w].status = 200
                  /\ resp[w].response = up[w].choices[1]
                  /\ resp[w].model_used = "llama3-8b-8192"
            /\ resp[w].status = 200 =>
                  /\ resp[w].model_used = "llama3-8b-8192"
                  /\ up[w].kind = "reply"

C6_Witness ==
    \E w \in Workers :
        /\ Done(w)
        /\ resp[w].status = 200
        /\ Len(up[w].choices) = 2
        /\ up[w].choices[1] # up[w].choices[2]
        /\ resp[w].response = Canned

\* C7 as claimed: for every accepted request the user-message content sent upstream
\* contains the original message text of the request as a substring, surrounding
\* whitespace included.
C7_OriginalMessageKept ==
    \A w \in Workers :
        Called(w) => IsSubstring(req[w].message.s, sent[w])

\* C7 as amended: for every accepted request the user-message content sent upstream
\* (and so the response of an echoing provider) contains the message with its leading
\* and trailing whitespace removed, and so the original message whenever it has no
\* surrounding whitespace.
C7_TrimmedMessageKept ==
    \A w \in Workers :
        Called(w) =>
            LET m == req[w].message.s
            IN  /\ TrimmedText(m) # <<>>
                /\ IsSubstring(TrimmedText(m), sent[w])
                /\ (m[1] \notin Whitespace /\ m[Len(m)] \notin Whitespace) =>
                      IsSubstring(m, sent[w])
                /\ (Done(w) /\ resp[w].status = 200 /\ up[w].choices[1] = sent[w]) =>
                      IsSubstring(TrimmedText(m), resp[w].response)

C7_Witness ==
    /\ Done("w1")
    /\ req["w1"].message.s = <<"x", " ">>
    /\ req["w1"].uploaded_files.v = <<Named(FileA)>>
    /\ resp["w1"].status = 200
    /\ resp["w1"].response = sent["w1"]
    /\ ~IsSubstring(req["w1"].message.s, sent["w1"])

C9_HandlerFaultMasked ==
    \A w \in Workers :
        Done(w) =>
            /\ fault[w] = "upstream" => (resp[w].status = 500 /\ resp[w].detail # "")
            /\ fault[w] = "handler" =>
                  /\ resp[w].status = 500
                  /\ resp[w].error = "Internal server error"
                  /\ resp[w].detail = ""

\* C9 as amended: every exception raised inside the chat handler, by the upstream call
\* or by the handler's own code, is answered 500 with the exception's description in
\* the body; no chat response carries the fixed body {error: "Internal server error"}.
C9_EveryFaultDetailed ==
    \A w \in Workers :
        Done(w) =>
            /\ fault[w] # "none" =>
                  /\ resp[w].status = 500
                  /\ resp[w].error = "An error occurred while processing your request: "
                  /\ resp[w].detail # ""
            /\ (fault[w] = "upstream" /\ up[w].kind = "raise") => resp[w].detail = up[w].err
            /\ fault[w] = "none" => resp[w].status \in {200, 400, 503}
            /\ resp[w].error # "Internal server error"

C9_Witness ==
    /\ Done("w1") /\ fault["w1"] = "handler"
    /\ Done("w2") /\ fault["w2"] = "upstream" /\ up["w2"].choices = <<>>
    /\ up["w2"].kind = "reply"

\* C10: two POST /api/chat requests that differ only in user_id, handled against the
\* same provider behaviour, receive the same status and body and cause the same
\* upstream call.
C10_UserIdIrrelevant ==
    \A v, w \in Workers :
        ( /\ Done(v) /\ Done(w)
          /\ [req[v] EXCEPT !.user_id = Absent] = [req[w] EXCEPT !.user_id = Absent]
          /\ (up[v] = up[w] \/ up[v] = NoUp \/ up[w] = NoUp) ) =>
            /\ resp[v] = resp[w]
            /\ sent[v] = sent[w]

====
